---- MODULE Spec2Model ----
(***************************************************************************)
(* Model of src/app.py: a Streamlit page that resolves an API key, keeps   *)
(* one cached ChatOpenAI handle, and on each form submission sends a       *)
(* two-message prompt (persona instruction + user text) to the model.      *)
(*                                                                         *)
(* Streamlit re-executes the whole script on every interaction, so every   *)
(* action below is one script run (lines 21-135) for one kind of event.    *)
(* Strings are sequences of symbols.  The braces "{" and "}" are symbols   *)
(* of their own because the prompt template gives them a meaning; the      *)
(* Japanese literals of the source are written as ASCII tokens, one per    *)
(* source line fragment, named by the line that holds them.                *)
(***************************************************************************)
EXTENDS Naturals, Sequences, FiniteSets

VARIABLES
    envKey,          \* os.environ.get("OPENAI_API_KEY") of the process
    secrets,         \* st.secrets lookup result for "OPENAI_API_KEY"
    OPENAI_API_KEY,  \* module global bound at lines 21-26
    secretsRead,     \* whether the last script run looked into st.secrets
    PERSONAS,        \* module global bound at line 49
    llmCache,        \* st.cache_resource store of get_llm: <<>> or <<handle>>
    built,           \* number of ChatOpenAI objects constructed so far
    persona,         \* value of the st.radio widget (line 113)
    user_text,       \* value of the st.text_area widget (line 117)
    submitted,       \* value of st.form_submit_button in the last run
    view,            \* what the last script run rendered
    shown,           \* the text rendered by st.error / st.warning / st.write
    sent,            \* requests handed to the client during the last run
    outcome,         \* what the external client did during the last run
    args,            \* arguments of the last direct query_llm call
    calls,           \* total number of requests handed to the client
    nonblank,        \* total number of submissions with non-blank text
    failures,        \* total number of submissions that ended in st.error
    submits          \* total number of submissions and direct calls

vars == <<envKey, secrets, OPENAI_API_KEY, secretsRead, PERSONAS, llmCache,
          built, persona, user_text, submitted, view, shown, sent, outcome,
          args, calls, nonblank, failures, submits>>

-----------------------------------------------------------------------------
(* Bounds *)

MaxLen == 2

MaxSubmits == 2

-----------------------------------------------------------------------------
(* Values *)

None == "None"

Missing == "KeyError"

EnvValues == {None, "", "sk-env"}

SecretValues == {Missing, "", "sk-secret"}

Whitespace == {" ", "\n"}

Alphabet == {"a", " ", "{"}

RECURSIVE SeqsUpTo(_, _)
SeqsUpTo(S, n) ==
    IF n = 0 THEN {<<>>}
    ELSE LET shorter == SeqsUpTo(S, n - 1)
         IN shorter \cup {Append(s, c) : s \in {t \in shorter : Len(t) = n - 1}, c \in S}

Texts == SeqsUpTo(Alphabet, MaxLen)

SampleTexts == {<<"a">>, <<" ">>}

Answers == {"answer-1"}

Errors == {"timeout", "rate-limit"}

NoOutcome == [kind |-> "none", text |-> ""]

Outcomes == [kind : {"ok"}, text : Answers] \cup [kind : {"raise"}, text : Errors]

NoArgs == [direct |-> FALSE, input_text |-> <<>>, persona_key |-> "",
           raised |-> FALSE, value |-> ""]

Truthy(v) == v # None /\ v # ""

-----------------------------------------------------------------------------
(* Lines 21-26: environment first, then the secret store. *)

LoadKeyIsNone(env, sec) ==
    IF env # None
    THEN [key |-> env, read |-> FALSE]
    ELSE [key |-> IF sec = Missing THEN None ELSE sec, read |-> TRUE]

LoadKey(env, sec) ==
    IF Truthy(env)
    THEN [key |-> env, read |-> FALSE]
    ELSE [key |-> IF sec = Missing THEN None ELSE sec, read |-> TRUE]

(* Lines 28-35: st.error + st.stop when the key is falsy. *)
KeyMissingMessage == <<"OPENAI_API_KEY-unset:31">>

Halts(key) == ~Truthy(key)

-----------------------------------------------------------------------------
(* Lines 38-46: get_llm under st.cache_resource. *)

ModelName == "gpt-4o-mini"

TemperatureTenths == 3

TimeoutSeconds == 60

ChatOpenAI(key, n) ==
    [id |-> n + 1, api_key |-> key, model |-> ModelName,
     temperature |-> TemperatureTenths, timeout |-> TimeoutSeconds]

(* The store of st.cache_resource for get_llm: empty, or the one handle. *)
EmptyCache == <<>>

get_llm_uncached(cache, key, n) ==
    [handle |-> ChatOpenAI(key, n), cache |-> <<ChatOpenAI(key, n)>>, built |-> n + 1]

get_llm(cache, key, n) ==
    IF cache # EmptyCache
    THEN [handle |-> cache[1], cache |-> cache, built |-> n]
    ELSE [handle |-> ChatOpenAI(key, n), cache |-> <<ChatOpenAI(key, n)>>, built |-> n + 1]

-----------------------------------------------------------------------------
(* Lines 49-66: the persona table.  Labels, in dict order:                 *)
(*   "compliance-insurance"  line 50                                       *)
(*   "data-science"          line 56                                       *)
(*   "cx-service-design"     line 61                                       *)
(* None of the three texts, nor the default of line 79, holds a brace.     *)

PersonaKeys == <<"compliance-insurance", "data-science", "cx-service-design">>

PersonaLiteral ==
    [k \in {PersonaKeys[i] : i \in 1..Len(PersonaKeys)} |->
        CASE k = "compliance-insurance" ->
                <<"compliance:51", "compliance:52", "compliance:53", "compliance:54">>
          [] k = "data-science" ->
                <<"data-science:57", "data-science:58", "data-science:59">>
          [] k = "cx-service-design" ->
                <<"cx:62", "cx:63", "cx(High/Medium/Low):64">>]

NoPersonas == [k \in {} |-> <<>>]

(* Line 79: the default of PERSONAS.get. *)
Fallback == <<"capable-assistant:79">>

Labels == DOMAIN PersonaLiteral \cup {"unknown-value", ""}

(* Lines 77-80: PERSONAS.get(persona_key, default). *)
SystemMsgDefaultOnly(personas, persona_key) == Fallback

SystemMsgFirst(personas, persona_key) ==
    IF persona_key \in DOMAIN personas
    THEN personas[persona_key]
    ELSE personas[PersonaKeys[1]]

SystemMsg(personas, persona_key) ==
    IF persona_key \in DOMAIN personas THEN personas[persona_key] ELSE Fallback

(* Lines 82-87: both turns are templates; the human turn is the            *)
(* placeholder {user_input}.                                               *)
PromptTemplate(system_msg) ==
    <<[role |-> "system", template |-> system_msg],
      [role |-> "human", template |-> <<"{", "user_input", "}">>]>>

(* Line 126: str.strip() drops leading and trailing whitespace. *)
RECURSIVE LStrip(_)
LStrip(s) ==
    IF s # <<>> /\ Head(s) \in Whitespace THEN LStrip(Tail(s)) ELSE s

RECURSIVE RStrip(_)
RStrip(s) ==
    IF s # <<>> /\ s[Len(s)] \in Whitespace THEN RStrip(SubSeq(s, 1, Len(s) - 1)) ELSE s

Strip(s) == RStrip(LStrip(s))

(* Line 89: the mapping handed to chain.invoke. *)
InvokeInputStripped(input_text) == [user_input |-> Strip(input_text)]

InvokeInput(input_text) == [user_input |-> input_text]

(* Template formatting done by chain.invoke (line 89) on each turn of the  *)
(* template of lines 82-87: "{{" and "}}" are literal braces, "{name}" is  *)
(* replaced by the value of name taken as is, a lone brace or an unknown   *)
(* name raises.                                                            *)
RECURSIVE Format(_, _)
Format(t, values) ==
    IF t = <<>> THEN [ok |-> TRUE, out |-> <<>>]
    ELSE IF Head(t) = "{" THEN
        IF Len(t) >= 2 /\ t[2] = "{" THEN
            LET rest == Format(SubSeq(t, 3, Len(t)), values)
            IN [ok |-> rest.ok, out |-> <<"{">> \o rest.out]
        ELSE IF Len(t) >= 3 /\ t[3] = "}" /\ t[2] \in DOMAIN values THEN
            LET rest == Format(SubSeq(t, 4, Len(t)), values)
            IN [ok |-> rest.ok, out |-> values[t[2]] \o rest.out]
        ELSE [ok |-> FALSE, out |-> <<>>]
    ELSE IF Head(t) = "}" THEN
        IF Len(t) >= 2 /\ t[2] = "}" THEN
            LET rest == Format(SubSeq(t, 3, Len(t)), values)
            IN [ok |-> rest.ok, out |-> <<"}">> \o rest.out]
        ELSE [ok |-> FALSE, out |-> <<>>]
    ELSE
        LET rest == Format(Tail(t), values)
        IN [ok |-> rest.ok, out |-> <<Head(t)>> \o rest.out]

FormatMessages(template, values) ==
    LET sys == Format(template[1].template, values)
        usr == Format(template[2].template, values)
    IN [ok |-> sys.ok /\ usr.ok,
        out |-> <<[role |-> template[1].role, content |-> sys.out],
                  [role |-> template[2].role, content |-> usr.out]>>]

(* Line 89: one request to the client; StrOutputParser returns the text of *)
(* the reply, an exception of the client propagates.                       *)
InvokeRetry(handle, messages, out) ==
    [sent |-> IF out.kind = "raise"
              THEN <<[handle |-> handle, messages |-> messages],
                     [handle |-> handle, messages |-> messages]>>
              ELSE <<[handle |-> handle, messages |-> messages]>>,
     raised |-> out.kind = "raise",
     value |-> out.text]

Invoke(handle, messages, out) ==
    [sent |-> <<[handle |-> handle, messages |-> messages]>>,
     raised |-> out.kind = "raise",
     value |-> out.text]

(* Lines 69-89. *)
query_llm(input_text, persona_key, personas, cache, key, n, out) ==
    LET system_msg == SystemMsg(personas, persona_key)
        prompt == PromptTemplate(system_msg)
        llm == get_llm(cache, key, n)
        msgs == FormatMessages(prompt, InvokeInput(input_text))
    IN IF ~msgs.ok
       THEN [raised |-> TRUE, value |-> "format-error", sent |-> <<>>,
             outcome |-> NoOutcome, cache |-> llm.cache, built |-> llm.built]
       ELSE LET r == Invoke(llm.handle, msgs.out, out)
            IN [raised |-> r.raised, value |-> r.value, sent |-> r.sent,
                outcome |-> out, cache |-> llm.cache, built |-> llm.built]

-----------------------------------------------------------------------------
(* Line 113: the options of the radio are the keys of PERSONAS in order.   *)
RadioOptionsExtra(personas) ==
    SelectSeq(PersonaKeys, LAMBDA k : k \in DOMAIN personas) \o <<"unknown-value">>

RadioOptions(personas) == SelectSeq(PersonaKeys, LAMBDA k : k \in DOMAIN personas)

(* Line 126: the blank test on the stripped text. *)
IsBlankNoStrip(text) == text = <<>>

IsBlank(text) == Strip(text) = <<>>

WarningMessage == <<"enter-text:127">>

AnswerHeading == "answer-heading:132"

ErrorPrefix == "error-occurred:135"

(* Lines 130-135: the answer under its heading, or st.error with the       *)
(* exception's text.                                                       *)
RenderNoCatch(r) ==
    IF r.raised
    THEN [view |-> "uncaught", shown |-> <<>>]
    ELSE [view |-> "answer", shown |-> <<AnswerHeading, r.value>>]

Render(r) ==
    IF r.raised
    THEN [view |-> "error", shown |-> <<ErrorPrefix, r.value>>]
    ELSE [view |-> "answer", shown |-> <<AnswerHeading, r.value>>]

(* Lines 125-135, the branch taken when the form was submitted. *)
SubmitHandlerReset(text, label, personas, cache, key, n, out) ==
    IF IsBlank(text)
    THEN [view |-> "warning", shown |-> WarningMessage, sent |-> <<>>,
          outcome |-> NoOutcome, cache |-> cache, built |-> n]
    ELSE LET r == query_llm(text, label, personas, cache, key, n, out)
         IN [view |-> Render(r).view, shown |-> Render(r).shown, sent |-> r.sent,
             outcome |-> r.outcome,
             cache |-> IF r.raised THEN EmptyCache ELSE r.cache, built |-> r.built]

SubmitHandler(text, label, personas, cache, key, n, out) ==
    IF IsBlank(text)
    THEN [view |-> "warning", shown |-> WarningMessage, sent |-> <<>>,
          outcome |-> NoOutcome, cache |-> cache, built |-> n]
    ELSE LET r == query_llm(text, label, personas, cache, key, n, out)
         IN [view |-> Render(r).view, shown |-> Render(r).shown, sent |-> r.sent,
             outcome |-> r.outcome, cache |-> r.cache, built |-> r.built]

(* Lines 92-123 with submitted = False: the form alone. *)
NoSubmit(cache, n) ==
    [view |-> "form", shown |-> <<>>, sent |-> <<>>, outcome |-> NoOutcome,
     cache |-> cache, built |-> n]

HasVisible(text) == \E i \in 1..Len(text) : text[i] \notin Whitespace

-----------------------------------------------------------------------------
(* One execution of the script, lines 21-135, for the widget values the    *)
(* browser sends with the event.  radio is the selected label (None while  *)
(* the widget has no value yet and takes its default, index 0).            *)
Run(radio, text, isSubmit, out) ==
    LET k == LoadKey(envKey, secrets)
    IN /\ OPENAI_API_KEY' = k.key
       /\ secretsRead' = k.read
       /\ args' = NoArgs
       /\ IF Halts(k.key)
          THEN /\ view' = "halted"
               /\ shown' = KeyMissingMessage
               /\ persona' = None
               /\ user_text' = <<>>
               /\ submitted' = FALSE
               /\ sent' = <<>>
               /\ outcome' = NoOutcome
               /\ UNCHANGED <<PERSONAS, llmCache, built, calls, nonblank, failures,
                              submits>>
          ELSE LET options == RadioOptions(PersonaLiteral)
                   label == IF radio = None THEN options[1] ELSE radio
               IN \E h \in {IF isSubmit
                            THEN SubmitHandler(text, label, PersonaLiteral, llmCache,
                                               k.key, built, out)
                            ELSE NoSubmit(llmCache, built)} :
                  /\ PERSONAS' = PersonaLiteral
                  /\ persona' = label
                  /\ user_text' = text
                  /\ submitted' = isSubmit
                  /\ view' = h.view
                  /\ shown' = h.shown
                  /\ sent' = h.sent
                  /\ outcome' = h.outcome
                  /\ llmCache' = h.cache
                  /\ built' = h.built
                  /\ calls' = calls + Len(h.sent)
                  /\ nonblank' = IF isSubmit /\ HasVisible(text)
                                 THEN nonblank + 1 ELSE nonblank
                  /\ failures' = IF h.view = "error" THEN failures + 1 ELSE failures
                  /\ submits' = IF isSubmit THEN submits + 1 ELSE submits
       /\ UNCHANGED <<envKey, secrets>>

Rendered == view \notin {"none", "halted"}

(* The page is opened or reloaded: a new session, widgets at their defaults. *)
Load == Run(None, <<>>, FALSE, NoOutcome)

(* The user picks another radio option: a rerun without submission. *)
SelectPersona(p) ==
    /\ Rendered
    /\ p \in {RadioOptions(PERSONAS)[i] : i \in 1..Len(RadioOptions(PERSONAS))}
    /\ p # persona
    /\ Run(p, user_text, FALSE, NoOutcome)

(* The user submits the form holding text; out is what the client will do  *)
(* if it is asked.                                                         *)
Submit(text, out) ==
    /\ Rendered
    /\ submits < MaxSubmits
    /\ Run(persona, text, TRUE, out)

(* query_llm called from outside the page, as the module's importer may. *)
DirectQuery(text, label, out) ==
    /\ Rendered
    /\ submits < MaxSubmits
    /\ \E r \in {query_llm(text, label, PERSONAS, llmCache, OPENAI_API_KEY, built, out)} :
          /\ args' = [direct |-> TRUE, input_text |-> text, persona_key |-> label,
                      raised |-> r.raised, value |-> r.value]
          /\ sent' = r.sent
          /\ outcome' = r.outcome
          /\ llmCache' = r.cache
          /\ built' = r.built
          /\ calls' = calls + Len(r.sent)
    /\ submits' = submits + 1
    /\ UNCHANGED <<envKey, secrets, OPENAI_API_KEY, secretsRead, PERSONAS, persona,
                   user_text, submitted, view, shown, nonblank, failures>>

Init ==
    /\ envKey \in EnvValues
    /\ secrets \in SecretValues
    /\ OPENAI_API_KEY = None
    /\ secretsRead = FALSE
    /\ PERSONAS = NoPersonas
    /\ llmCache = EmptyCache
    /\ built = 0
    /\ persona = None
    /\ user_text = <<>>
    /\ submitted = FALSE
    /\ view = "none"
    /\ shown = <<>>
    /\ sent = <<>>
    /\ outcome = NoOutcome
    /\ args = NoArgs
    /\ calls = 0
    /\ nonblank = 0
    /\ failures = 0
    /\ submits = 0

SubmitAny == \E text \in Texts, out \in Outcomes : Submit(text, out)

SelectAny == \E p \in Labels : SelectPersona(p)

DirectAny == \E text \in Texts, label \in Labels, out \in Outcomes : DirectQuery(text, label, out)

SubmitSample == \E text \in SampleTexts, out \in Outcomes : Submit(text, out)

DirectSample ==
    \E text \in SampleTexts, label \in Labels, out \in Outcomes : DirectQuery(text, label, out)

(* The page driven through the browser. *)
Next == Load \/ SelectAny \/ SubmitAny

Spec == Init /\ [][Next]_vars

(* The module imported and query_llm called directly. *)
NextQuery == Load \/ DirectAny

SpecQuery == Init /\ [][NextQuery]_vars

(* Browser events and direct calls interleaved. *)
NextAll == Load \/ SelectAny \/ SubmitSample \/ DirectSample

SpecAll == Init /\ [][NextAll]_vars

-----------------------------------------------------------------------------
(* Properties *)

Registered == DOMAIN PersonaLiteral

SystemTurn(request) == request.messages[1]

UserTurn(request) == request.messages[2]

SubmitStep == submits' = submits + 1

(* C1: a direct query_llm call with a label that is a key of the persona   *)
(* table sends one prompt whose system turn is that label's text, which is *)
(* neither another persona's text nor the generic default.                 *)
C1_RegisteredLabelUsesItsText ==
    (args.direct /\ args.persona_key \in Registered) =>
        /\ Len(sent) = 1
        /\ SystemTurn(sent[1]).role = "system"
        /\ SystemTurn(sent[1]).content = PersonaLiteral[args.persona_key]
        /\ SystemTurn(sent[1]).content # Fallback
        /\ \A k \in Registered \ {args.persona_key} :
              SystemTurn(sent[1]).content # PersonaLiteral[k]

C1_Witness ==
    /\ args.direct
    /\ args.persona_key = "data-science"
    /\ args.input_text = <<"a", " ">>
    /\ Len(sent) = 1
    /\ SystemTurn(sent[1]).content =
          <<"data-science:57", "data-science:58", "data-science:59">>

(* C2: a direct query_llm call with a label that is no key of the table    *)
(* does not fail at the lookup: it sends one prompt whose system turn is   *)
(* the generic default, through the cached handle, and returns or raises   *)
(* what the client returns or raises, as for a registered label.           *)
C2_UnknownLabelFallsBack ==
    (args.direct /\ args.persona_key \notin Registered) =>
        /\ Len(sent) = 1
        /\ SystemTurn(sent[1]) = [role |-> "system", content |-> Fallback]
        /\ UserTurn(sent[1]) = [role |-> "human", content |-> args.input_text]
        /\ llmCache = <<sent[1].handle>>
        /\ args.raised = (outcome.kind = "raise")
        /\ args.value = outcome.text

C2_Witness ==
    /\ args.direct
    /\ args.persona_key = "unknown-value"
    /\ ~args.raised
    /\ args.value = "answer-1"
    /\ Len(sent) = 1
    /\ SystemTurn(sent[1]).content = <<"capable-assistant:79">>

(* C3: for every non-empty text, whatever the label, the user turn of the  *)
(* prompt query_llm sends is the text itself: whitespace and braces stay.  *)
C3_UserTurnVerbatim ==
    (args.direct /\ args.input_text # <<>>) =>
        /\ Len(sent) = 1
        /\ UserTurn(sent[1]).role = "human"
        /\ UserTurn(sent[1]).content = args.input_text

C3_Witness ==
    /\ args.direct
    /\ args.input_text = <<" ", "{">>
    /\ Len(sent) = 1
    /\ UserTurn(sent[1]).content = <<" ", "{">>

(* C4: a submission whose text has no symbol other than whitespace ends    *)
(* with the validation warning and hands no request to the client.         *)
C4_BlankNeverCalls ==
    [][(SubmitStep /\ submitted' /\ ~HasVisible(user_text')) =>
          /\ view' = "warning"
          /\ shown' = WarningMessage
          /\ sent' = <<>>
          /\ calls' = calls
          /\ built' = built]_vars

C4_Witness ==
    /\ submitted
    /\ user_text = <<" ", " ">>
    /\ view = "warning"
    /\ calls = 0

(* C5: when the client raises during a submission, the run ends showing    *)
(* st.error with the exception's text in it; nothing escapes uncaught and  *)
(* no answer is shown.                                                     *)
C5_ClientErrorIsDisplayed ==
    (submitted /\ outcome.kind = "raise") =>
        /\ view = "error"
        /\ \E i \in 1..Len(shown) : shown[i] = outcome.text
        /\ \A i \in 1..Len(shown) : shown[i] # AnswerHeading

C5_Witness ==
    /\ submitted
    /\ outcome = [kind |-> "raise", text |-> "timeout"]
    /\ view = "error"
    /\ shown = <<"error-occurred:135", "timeout">>

C7_HaltsExactlyWithoutKey ==
    view # "none" =>
        /\ (view = "halted") <=>
              (envKey \in {"None", ""} /\ secrets \in {"KeyError", ""})
        /\ secretsRead <=> envKey \in {"None", ""}
        /\ view # "halted" =>
              OPENAI_API_KEY = (IF envKey \in {"None", ""} THEN secrets ELSE envKey)
        /\ view = "halted" =>
              /\ shown = KeyMissingMessage
              /\ persona = "None"
              /\ sent = <<>>
              /\ calls = 0
              /\ submits = 0
              /\ llmCache = <<>>

C7_Witness ==
    /\ view = "halted"
    /\ envKey = ""
    /\ secrets = "KeyError"
    /\ secretsRead

(* C8: a submission made right after one that ended in st.error is         *)
(* handled as any submission: blank text gives the warning and no request, *)
(* other text gives one request through the same handle and shows its      *)
(* answer or its error; the failure leaves the handle and the persona      *)
(* table as they were.                                                     *)
C8_ResubmitAfterError ==
    [][(view = "error" /\ SubmitStep) =>
          /\ llmCache # EmptyCache
          /\ llmCache' = llmCache
          /\ built' = built
          /\ PERSONAS = PersonaLiteral
          /\ PERSONAS' = PERSONAS
          /\ IF ~HasVisible(user_text')
             THEN view' = "warning" /\ calls' = calls /\ sent' = <<>>
             ELSE /\ calls' = calls + 1
                  /\ Len(sent') = 1
                  /\ sent'[1].handle = llmCache[1]
                  /\ SystemTurn(sent'[1]).content = PersonaLiteral[persona']
                  /\ UserTurn(sent'[1]).content = user_text'
                  /\ \/ /\ outcome'.kind = "ok"
                        /\ view' = "answer"
                        /\ shown' = <<AnswerHeading, outcome'.text>>
                     \/ /\ outcome'.kind = "raise"
                        /\ view' = "error"
                        /\ shown' = <<ErrorPrefix, outcome'.text>>]_vars

C8_Witness ==
    /\ failures = 1
    /\ submits = 2
    /\ calls = 2
    /\ view = "answer"
    /\ built = 1

(* C9: the client handle is built at most once, not before the first       *)
(* non-blank submission, with the resolved key and the fixed model,        *)
(* temperature and timeout; every request goes through it and, once        *)
(* built, it never changes.                                                *)
C9_OneHandleReused ==
    /\ [](/\ built <= 1
          /\ (built = 0) <=> (nonblank = 0)
          /\ (llmCache = EmptyCache) <=> (built = 0)
          /\ llmCache # EmptyCache =>
                llmCache = <<[id |-> 1, api_key |-> OPENAI_API_KEY,
                              model |-> "gpt-4o-mini", temperature |-> 3,
                              timeout |-> 60]>>
          /\ \A i \in 1..Len(sent) : <<sent[i].handle>> = llmCache)
    /\ [][llmCache # EmptyCache => llmCache' = llmCache]_vars

C9_Witness ==
    /\ calls = 2
    /\ built = 1
    /\ Len(sent) = 1
    /\ <<sent[1].handle>> = llmCache

(* C10: the label of every submission is an option of the radio, hence a   *)
(* key of the table, and its prompt carries that key's text; a prompt      *)
(* whose system turn is the generic default comes only from a direct       *)
(* query_llm call with an unregistered label.                              *)
C10_FallbackOnlyByDirectCall ==
    /\ Rendered => persona \in Registered
    /\ (submitted /\ ~args.direct /\ sent # <<>>) =>
          SystemTurn(sent[1]).content = PersonaLiteral[persona]
    /\ \A i \in 1..Len(sent) :
          SystemTurn(sent[i]).content = Fallback =>
              (args.direct /\ args.persona_key \notin Registered)

C10_Witness ==
    /\ submitted
    /\ ~args.direct
    /\ persona = "cx-service-design"
    /\ Len(sent) = 1
    /\ SystemTurn(sent[1]).content = <<"cx:62", "cx:63", "cx(High/Medium/Low):64">>

====
